---- MODULE Spec2Model ----
(***************************************************************************)
(* Model of main.py: download_chunks (the sequential retrieval loop),      *)
(* create_concat_file (the manifest builder), merge_chunks_into_mp4 (the   *)
(* ffmpeg invocation) and main (the driver), run one or more times over    *)
(* the same output directory and the same remote series.                   *)
(***************************************************************************)
EXTENDS Integers, Sequences, FiniteSets, TLC

\* ------------------------------------------------------------------ bounds
\* Highest chunk index the remote series and the directory are modelled for.
MaxChunk == 4
\* Highest start_chunk a caller of download_chunks passes.
MaxStart == 2
\* Number of runs over the same output directory.
MaxRuns == 2

\* --------------------------------------------------------------- constants
HTTP_OK == 200
HTTP_NOT_FOUND == 404
\* Marks a request that fails in transport: requests.get raises, no status.
NoStatus == 0
\* Marks a request that is never answered: requests.get has no timeout and
\* neither returns nor raises.
NoAnswer == 0 - 2
\* The value of `result` while download_chunks has not returned.
NoResult == 0 - 1
\* The value of `exit_status` while ffmpeg has not run.
NoExit == 0 - 1

chunk_prefix == "video"
chunk_suffix == ".ts"

Indices == 1..MaxChunk

\* f"{chunk_prefix}{chunk_number}{chunk_suffix}"
ChunkName(prefix, n, suffix) == prefix \o ToString(n) \o suffix

Names == {ChunkName(chunk_prefix, n, chunk_suffix) : n \in Indices}

\* The payload the remote serves for chunk n (response.content).
Content(n) == <<n, n + 100>>

\* A file of the output directory: absent, or present with its bytes.
Absent == [exists |-> FALSE, data |-> <<>>]
File(bytes) == [exists |-> TRUE, data |-> bytes]

\* f"file '{chunk_name}'\n"
ConcatLine(chunk_name) == "file '" \o chunk_name \o "'\n"

VARIABLES
    caller,         \* "main": main() runs; "direct": download_chunks is called alone;
                    \* "pipeline": the three functions are called as main calls them,
                    \* with start_chunk passed to download_chunks
    start_chunk,    \* argument start_chunk of download_chunks
    remote,         \* remote[n]: what a GET of chunk n answers (200, 404, or no answer)
    disk,           \* output directory: chunk file name -> file
    manifest,       \* output directory: file_list.txt
    pc,             \* position of the run
    chunk_number,   \* local of download_chunks
    downloaded_any, \* local of download_chunks
    response,       \* local of download_chunks: the last response
    result,         \* value download_chunks returned (last_chunk_downloaded in main)
    i,              \* loop variable of create_concat_file
    exit_status,    \* exit status of ffmpeg in this run
    printed,        \* messages of main and merge_chunks_into_mp4 printed in this run
    fetches,        \* requests.get calls of this run, in order
    disk0,          \* the directory's chunk files when this run started
    manifest0,      \* file_list.txt when this run started
    calls,          \* calls of create_concat_file and merge_chunks_into_mp4 in this run
    runs,           \* number of the current run
    prev_result     \* value download_chunks returned in the previous run

vars == <<caller, start_chunk, remote, disk, manifest, pc, chunk_number,
          downloaded_any, response, result, i, exit_status, printed, fetches,
          disk0, manifest0, calls, runs, prev_result>>

env == <<caller, start_chunk, remote, runs, prev_result, disk0, manifest0>>
mainVars == <<manifest, i, exit_status, printed, calls>>

NoResponse == [status_code |-> NoStatus, content |-> <<>>]

\* Mutant of Exists: the existence check never finds the file.
Exists_Never(d, name) == FALSE

\* os.path.exists(output_file)
Exists(d, name) == d[name].exists

\* requests.get(url): the answer of the remote for chunk n
Get(n) == [status_code |-> remote[n],
           content |-> IF remote[n] = HTTP_OK THEN Content(n) ELSE <<>>]

\* Mutant of LastChunk: the index that failed is returned, not the one before.
LastChunk_OffByOne(n) == n

\* last_chunk = chunk_number - 1
LastChunk(n) == n - 1

\* The value download_chunks returns after the loop.
ReturnValue(any, n) == IF ~any THEN 0 ELSE LastChunk(n)

\* A stale manifest left by an earlier use of the directory.
StaleManifest == File(<<ConcatLine(ChunkName(chunk_prefix, 7, chunk_suffix)),
                        ConcatLine(ChunkName(chunk_prefix, 1, chunk_suffix))>>)

Init ==
    /\ caller \in {"main", "direct", "pipeline"}
    /\ start_chunk \in 1..MaxStart
    /\ caller = "main" => start_chunk = 1
    \* main's stages around a download_chunks that starts at 1 are main itself
    /\ caller = "pipeline" => start_chunk > 1
    /\ remote \in [Indices -> {HTTP_OK, HTTP_NOT_FOUND, NoStatus}]
    \* the loop counts up from start_chunk: no index below it is requested
    /\ \A n \in Indices : n < start_chunk => remote[n] = HTTP_NOT_FOUND
    /\ \E present \in SUBSET Indices :
         disk = [name \in Names |->
                   IF \E n \in present : name = ChunkName(chunk_prefix, n, chunk_suffix)
                   THEN File(Content(CHOOSE n \in present :
                                 name = ChunkName(chunk_prefix, n, chunk_suffix)))
                   ELSE Absent]
    /\ manifest \in {Absent, StaleManifest}
    \* download_chunks alone neither reads nor writes file_list.txt
    /\ caller = "direct" => manifest = Absent
    /\ pc = "enter"
    /\ chunk_number = start_chunk
    /\ downloaded_any = FALSE
    /\ response = NoResponse
    /\ result = NoResult
    /\ i = 0
    /\ exit_status = NoExit
    /\ printed = {}
    /\ fetches = <<>>
    /\ disk0 = disk
    /\ manifest0 = manifest
    /\ calls = [concat |-> 0, merge |-> 0]
    /\ runs = 1
    /\ prev_result = NoResult

\* ---------------------------------------------------------- download_chunks
\* lines 38-42: os.makedirs(output_dir, exist_ok=True) succeeds, the locals
\* are set
MakeDirs ==
    /\ pc = "enter"
    /\ pc' = "loop"
    /\ UNCHANGED <<env, mainVars, disk, chunk_number, downloaded_any, response,
                   result, fetches>>

\* lines 38-42: os.makedirs raises (the path is taken by a regular file, the
\* directory cannot be created or cannot be reached), the run is interrupted
\* or the print of line 42 raises; what the directory holds stays as it is
MakeDirsFails ==
    /\ pc = "enter"
    /\ pc' = "raised"
    /\ UNCHANGED <<env, mainVars, disk, chunk_number, downloaded_any, response,
                   result, fetches>>

\* Mutant of SkipExisting: `continue` without advancing chunk_number.
SkipExisting_NoAdvance ==
    /\ pc = "loop"
    /\ chunk_number <= MaxChunk
    /\ Exists(disk, ChunkName(chunk_prefix, chunk_number, chunk_suffix))
    /\ UNCHANGED vars

\* lines 45-53: the chunk's file already exists, skip it
SkipExisting ==
    /\ pc = "loop"
    /\ chunk_number <= MaxChunk
    /\ Exists(disk, ChunkName(chunk_prefix, chunk_number, chunk_suffix))
    /\ chunk_number' = chunk_number + 1
    /\ UNCHANGED <<env, mainVars, disk, pc, downloaded_any, response, result, fetches>>

\* Mutant of Fetch: a non-200 answer is taken for a gap and the loop goes on
\* with the next index.
Fetch_SkipsGap ==
    /\ pc = "loop"
    /\ chunk_number <= MaxChunk
    /\ ~Exists(disk, ChunkName(chunk_prefix, chunk_number, chunk_suffix))
    /\ fetches' = Append(fetches, [index |-> chunk_number, status |-> remote[chunk_number]])
    /\ IF remote[chunk_number] = NoStatus
       THEN /\ pc' = "raised"
            /\ UNCHANGED <<response, chunk_number>>
       ELSE /\ response' = Get(chunk_number)
            /\ IF response'.status_code # HTTP_OK
               THEN pc' = "loop" /\ chunk_number' = chunk_number + 1
               ELSE pc' = "save" /\ UNCHANGED chunk_number
    /\ UNCHANGED <<env, mainVars, disk, downloaded_any, result>>

\* lines 55-61: fetch the chunk; non-200 breaks the loop; a transport failure
\* is an exception of requests.get, which nothing catches
Fetch ==
    /\ pc = "loop"
    /\ chunk_number <= MaxChunk
    /\ ~Exists(disk, ChunkName(chunk_prefix, chunk_number, chunk_suffix))
    /\ fetches' = Append(fetches, [index |-> chunk_number, status |-> remote[chunk_number]])
    /\ IF remote[chunk_number] = NoStatus
       THEN /\ pc' = "raised"
            /\ UNCHANGED response
       ELSE /\ response' = Get(chunk_number)
            /\ pc' = IF response'.status_code # HTTP_OK THEN "ret" ELSE "save"
    /\ UNCHANGED <<env, mainVars, disk, chunk_number, downloaded_any, result>>

\* line 56: requests.get is called without a timeout; a peer that takes the
\* request and never answers leaves the program blocked in the call
FetchHangs ==
    /\ pc = "loop"
    /\ chunk_number <= MaxChunk
    /\ ~Exists(disk, ChunkName(chunk_prefix, chunk_number, chunk_suffix))
    /\ fetches' = Append(fetches, [index |-> chunk_number, status |-> NoAnswer])
    /\ pc' = "blocked"
    /\ UNCHANGED <<env, mainVars, disk, chunk_number, downloaded_any, response, result>>

\* lines 56-60: the request is answered with a status other than 200 and the
\* print of line 60 raises (stdout cannot be written), or the run is
\* interrupted, before the break: the exception leaves download_chunks
StopMessageFails ==
    /\ pc = "loop"
    /\ chunk_number <= MaxChunk
    /\ ~Exists(disk, ChunkName(chunk_prefix, chunk_number, chunk_suffix))
    /\ remote[chunk_number] \notin {HTTP_OK, NoStatus}
    /\ fetches' = Append(fetches, [index |-> chunk_number, status |-> remote[chunk_number]])
    /\ response' = Get(chunk_number)
    /\ pc' = "raised"
    /\ UNCHANGED <<env, mainVars, disk, chunk_number, downloaded_any, result>>

\* The places between two steps of the program at which an exception can
\* leave it with nothing else changed: a print that raises OSError because
\* stdout cannot be written (lines 51, 55, 72, 77, 168, 182) or a
\* KeyboardInterrupt, also while the program waits in requests.get or for
\* ffmpeg, and after main's last print (lines 168-169, 182) before main has
\* returned.
Interruptible ==
    {"loop", "ret", "guard", "concat", "merge", "finish", "blocked", "merging", "done"}

\* lines 44-182: an exception that nothing catches leaves the program where
\* it is
StatementRaises ==
    /\ pc \in Interruptible
    /\ pc' = "raised"
    /\ UNCHANGED <<env, mainVars, disk, chunk_number, downloaded_any, response,
                   result, fetches>>

\* line 64: open(output_file, "wb") raises OSError; no file is created
OpenChunkFails ==
    /\ pc = "save"
    /\ pc' = "raised"
    /\ UNCHANGED <<env, mainVars, disk, chunk_number, downloaded_any, response,
                   result, fetches>>

\* line 64: open(output_file, "wb") creates or truncates the file
OpenChunk ==
    /\ pc = "save"
    /\ disk' = [disk EXCEPT ![ChunkName(chunk_prefix, chunk_number, chunk_suffix)] = File(<<>>)]
    /\ pc' = "write"
    /\ UNCHANGED <<env, mainVars, chunk_number, downloaded_any, response, result, fetches>>

\* Mutant of WriteChunk: downloaded_any is not set.
WriteChunk_NoFlag ==
    /\ pc = "write"
    /\ disk' = [disk EXCEPT ![ChunkName(chunk_prefix, chunk_number, chunk_suffix)] =
                                File(response.content)]
    /\ chunk_number' = chunk_number + 1
    /\ pc' = "loop"
    /\ UNCHANGED <<env, mainVars, downloaded_any, response, result, fetches>>

\* Mutant of WriteChunk: the loop advances by two after a download.
WriteChunk_SkipsOne ==
    /\ pc = "write"
    /\ disk' = [disk EXCEPT ![ChunkName(chunk_prefix, chunk_number, chunk_suffix)] =
                                File(response.content)]
    /\ downloaded_any' = TRUE
    /\ chunk_number' = chunk_number + 2
    /\ pc' = "loop"
    /\ UNCHANGED <<env, mainVars, response, result, fetches>>

\* lines 65-68: the payload is written, the loop goes on with the next index
WriteChunk ==
    /\ pc = "write"
    /\ disk' = [disk EXCEPT ![ChunkName(chunk_prefix, chunk_number, chunk_suffix)] =
                                File(response.content)]
    /\ downloaded_any' = TRUE
    /\ chunk_number' = chunk_number + 1
    /\ pc' = "loop"
    /\ UNCHANGED <<env, mainVars, response, result, fetches>>

\* lines 65-68: the write fails (OSError) or the run is interrupted during or
\* right after it; the file keeps the bytes written so far, which may be all
\* of them, and the exception ends the run before chunk_number is advanced,
\* with downloaded_any set only if line 67 was reached
WriteFails ==
    /\ pc = "write"
    /\ \E n \in 0..Len(response.content) :
         /\ disk' = [disk EXCEPT ![ChunkName(chunk_prefix, chunk_number, chunk_suffix)] =
                                   File(SubSeq(response.content, 1, n))]
         /\ \/ UNCHANGED downloaded_any
            \/ n = Len(response.content) /\ downloaded_any' = TRUE
    /\ pc' = "raised"
    /\ UNCHANGED <<env, mainVars, chunk_number, response, result, fetches>>

\* lines 70-78: the value returned
Return ==
    /\ pc = "ret"
    /\ result' = ReturnValue(downloaded_any, chunk_number)
    /\ pc' = IF caller = "direct" THEN "returned" ELSE "guard"
    /\ UNCHANGED <<env, mainVars, disk, chunk_number, downloaded_any, response, fetches>>

\* --------------------------------------------------------------------- main
\* Mutant of MainGuard: main does not test the outcome.
MainGuard_Missing ==
    /\ pc = "guard"
    /\ pc' = "concat"
    /\ UNCHANGED <<env, mainVars, disk, chunk_number, downloaded_any, response,
                   result, fetches>>

\* lines 167-169: nothing downloaded, main returns
MainGuard ==
    /\ pc = "guard"
    /\ IF result = 0
       THEN /\ printed' = printed \cup {"closing"}
            /\ pc' = "done"
       ELSE /\ pc' = "concat"
            /\ UNCHANGED printed
    /\ UNCHANGED <<env, manifest, i, exit_status, calls, disk, chunk_number,
                   downloaded_any, response, result, fetches>>

\* Mutant of ConcatOpen: file_list.txt is opened with mode "a".
ConcatOpen_Append ==
    /\ pc = "concat"
    /\ calls' = [calls EXCEPT !.concat = @ + 1]
    /\ manifest' = File(manifest.data)
    /\ i' = 1
    /\ pc' = "concat_write"
    /\ UNCHANGED <<env, exit_status, printed, disk, chunk_number, downloaded_any,
                   response, result, fetches>>

\* lines 104-108: create_concat_file opens file_list.txt with mode "w"
ConcatOpen ==
    /\ pc = "concat"
    /\ calls' = [calls EXCEPT !.concat = @ + 1]
    /\ manifest' = File(<<>>)
    /\ i' = 1
    /\ pc' = "concat_write"
    /\ UNCHANGED <<env, exit_status, printed, disk, chunk_number, downloaded_any,
                   response, result, fetches>>

\* line 107: open(concat_path, "w") raises OSError; file_list.txt is as it was
ConcatOpenFails ==
    /\ pc = "concat"
    /\ calls' = [calls EXCEPT !.concat = @ + 1]
    /\ pc' = "raised"
    /\ UNCHANGED <<env, manifest, i, exit_status, printed, disk, chunk_number,
                   downloaded_any, response, result, fetches>>

\* A write of a line that is cut short leaves a proper prefix of the line;
\* every line starts with "file '", and its first three characters stand for
\* all the proper prefixes.
TornLine == "fil"

\* lines 107-110: a write, the flush or the close of file_list.txt raises
\* OSError: of the lines written so far the file keeps the first k, and
\* possibly a torn piece of the next one, which may be the line that was
\* being written
ConcatWriteFails ==
    /\ pc = "concat_write"
    /\ \E k \in 0..Len(manifest.data) :
         \/ manifest' = File(SubSeq(manifest.data, 1, k))
         \/ /\ k < Len(manifest.data) \/ i < result + 1
            /\ manifest' = File(Append(SubSeq(manifest.data, 1, k), TornLine))
    /\ pc' = "raised"
    /\ UNCHANGED <<env, i, exit_status, printed, calls, disk, chunk_number,
                   downloaded_any, response, result, fetches>>

\* Mutant of ConcatWrite: for i in range(1, last_chunk).
ConcatWrite_StopsEarly ==
    /\ pc = "concat_write"
    /\ IF i < result
       THEN /\ manifest' = File(Append(manifest.data,
                                 ConcatLine(ChunkName(chunk_prefix, i, chunk_suffix))))
            /\ i' = i + 1
            /\ UNCHANGED pc
       ELSE /\ pc' = "merge"
            /\ UNCHANGED <<manifest, i>>
    /\ UNCHANGED <<env, exit_status, printed, calls, disk, chunk_number,
                   downloaded_any, response, result, fetches>>

\* lines 108-112: for i in range(1, last_chunk + 1): one line per index
ConcatWrite ==
    /\ pc = "concat_write"
    /\ IF i < result + 1
       THEN /\ manifest' = File(Append(manifest.data,
                                 ConcatLine(ChunkName(chunk_prefix, i, chunk_suffix))))
            /\ i' = i + 1
            /\ UNCHANGED pc
       ELSE /\ pc' = "merge"
            /\ UNCHANGED <<manifest, i>>
    /\ UNCHANGED <<env, exit_status, printed, calls, disk, chunk_number,
                   downloaded_any, response, result, fetches>>

\* Mutant of MergeChunks: subprocess.run without check=True.
MergeChunks_NoCheck ==
    /\ pc = "merge"
    /\ calls' = [calls EXCEPT !.merge = @ + 1]
    /\ \E code \in {0, 1} : exit_status' = code
    /\ pc' = "finish"
    /\ printed' = printed \cup {"starting", "generated"}
    /\ UNCHANGED <<env, manifest, i, disk, chunk_number, downloaded_any, response,
                   result, fetches>>

\* lines 127-137: subprocess.run(ffmpeg_command, check=True)
MergeChunks ==
    /\ pc = "merge"
    /\ calls' = [calls EXCEPT !.merge = @ + 1]
    /\ \E code \in {0, 1} :
         /\ exit_status' = code
         /\ IF code # 0
            THEN /\ pc' = "raised"
                 /\ printed' = printed \cup {"starting"}
            ELSE /\ pc' = "finish"
                 /\ printed' = printed \cup {"starting", "generated"}
    /\ UNCHANGED <<env, manifest, i, disk, chunk_number, downloaded_any, response,
                   result, fetches>>

\* line 136: subprocess.run cannot start ffmpeg (FileNotFoundError)
MergeCannotStart ==
    /\ pc = "merge"
    /\ calls' = [calls EXCEPT !.merge = @ + 1]
    /\ printed' = printed \cup {"starting"}
    /\ pc' = "raised"
    /\ UNCHANGED <<env, manifest, i, exit_status, disk, chunk_number, downloaded_any,
                   response, result, fetches>>

\* line 127: the print that announces the conversion raises; ffmpeg is not
\* started
MergeAnnounceFails ==
    /\ pc = "merge"
    /\ calls' = [calls EXCEPT !.merge = @ + 1]
    /\ pc' = "raised"
    /\ UNCHANGED <<env, manifest, i, exit_status, printed, disk, chunk_number,
                   downloaded_any, response, result, fetches>>

\* lines 136-137: ffmpeg exits with status 0 and the print of line 137 raises
MergeReportFails ==
    /\ pc = "merge"
    /\ calls' = [calls EXCEPT !.merge = @ + 1]
    /\ exit_status' = 0
    /\ printed' = printed \cup {"starting"}
    /\ pc' = "raised"
    /\ UNCHANGED <<env, manifest, i, disk, chunk_number, downloaded_any, response,
                   result, fetches>>

\* line 136: subprocess.run waits for ffmpeg without a timeout; an ffmpeg that
\* never exits (it asks before overwriting an output file, no -y is passed)
\* leaves the program waiting in the call
MergeHangs ==
    /\ pc = "merge"
    /\ calls' = [calls EXCEPT !.merge = @ + 1]
    /\ printed' = printed \cup {"starting"}
    /\ pc' = "merging"
    /\ UNCHANGED <<env, manifest, i, exit_status, disk, chunk_number, downloaded_any,
                   response, result, fetches>>

\* line 182
MainDone ==
    /\ pc = "finish"
    /\ printed' = printed \cup {"completed"}
    /\ pc' = "done"
    /\ UNCHANGED <<env, manifest, i, exit_status, calls, disk, chunk_number,
                   downloaded_any, response, result, fetches>>

\* lines 185-186 (line 38 for a direct caller): the program is run again with
\* the same arguments over the same directory and the same remote series
RunAgain ==
    /\ pc \in {"done", "returned", "raised", "blocked", "merging"}
    /\ runs < MaxRuns
    /\ runs' = runs + 1
    /\ prev_result' = result
    /\ disk0' = disk
    /\ manifest0' = manifest
    /\ pc' = "enter"
    /\ chunk_number' = start_chunk
    /\ downloaded_any' = FALSE
    /\ response' = NoResponse
    /\ result' = NoResult
    /\ i' = 0
    /\ exit_status' = NoExit
    /\ printed' = {}
    /\ fetches' = <<>>
    /\ calls' = [concat |-> 0, merge |-> 0]
    /\ UNCHANGED <<caller, start_chunk, remote, disk, manifest>>

Next ==
    \/ MakeDirs
    \/ MakeDirsFails
    \/ SkipExisting
    \/ Fetch
    \/ FetchHangs
    \/ StopMessageFails
    \/ StatementRaises
    \/ OpenChunk
    \/ OpenChunkFails
    \/ WriteChunk
    \/ WriteFails
    \/ Return
    \/ MainGuard
    \/ ConcatOpen
    \/ ConcatOpenFails
    \/ ConcatWrite
    \/ ConcatWriteFails
    \/ MergeChunks
    \/ MergeCannotStart
    \/ MergeAnnounceFails
    \/ MergeReportFails
    \/ MergeHangs
    \/ MainDone
    \/ RunAgain

Spec == Init /\ [][Next]_vars

\* The steps the program takes by itself: it is single-threaded, so the
\* statement it is at is executed, and a call that comes back lets it go on.
\* A call of the operating system that raises, a request that is never
\* answered, an ffmpeg that never exits and a further run are not among them:
\* they may happen instead, and nothing forces the program on after them.
Step ==
    \/ MakeDirs
    \/ SkipExisting
    \/ Fetch
    \/ OpenChunk
    \/ WriteChunk
    \/ Return
    \/ MainGuard
    \/ ConcatOpen
    \/ ConcatWrite
    \/ MergeChunks
    \/ MainDone

\* The runs the termination of the loop is checked on: main, or
\* download_chunks alone, over a directory without a manifest and without
\* files below start_chunk, which these callers never look at. A chunk whose
\* file is in the directory is never requested, in this run or a later one
\* (no file is ever removed), so one answer stands for what the remote would
\* have said for it.
LiveInit ==
    /\ Init
    /\ caller # "pipeline"
    /\ manifest = Absent
    /\ \A n \in Indices :
         /\ n < start_chunk => ~disk[ChunkName(chunk_prefix, n, chunk_suffix)].exists
         /\ disk[ChunkName(chunk_prefix, n, chunk_suffix)].exists
              => remote[n] = HTTP_NOT_FOUND

LiveSpec == LiveInit /\ [][Next]_vars /\ WF_vars(Step)

\* ------------------------------------------------------------------ claims
Name(n) == ChunkName(chunk_prefix, n, chunk_suffix)

\* download_chunks has returned a value in this run.
Returned == result # NoResult

\* The indices requested in this run, in order.
FetchIndices == [j \in 1..Len(fetches) |-> fetches[j].index]

\* The sequence a, a+1, ..., b (empty when b < a).
Upto(a, b) == [j \in 1..(IF b < a THEN 0 ELSE b - a + 1) |-> a + j - 1]

\* The run's fetches are N answers 200 at start_chunk, start_chunk+1, ...
\* followed by one answer that is a status other than 200.
SuccessesThenFailure(N) ==
    /\ Len(fetches) = N + 1
    /\ \A j \in 1..(N + 1) : fetches[j].index = start_chunk + j - 1
    /\ \A j \in 1..N : fetches[j].status = HTTP_OK
    /\ fetches[N + 1].status \notin {HTTP_OK, NoStatus, NoAnswer}

\* C1: when download_chunks issues N >= 0 consecutive fetches answered 200
\* and then one answered non-200, beginning at start_chunk, it returns
\* start_chunk + N - 1 if N > 0 and 0 if N = 0.
C1_ReturnsLastSuccess ==
    \A N \in 0..MaxChunk :
        (Returned /\ SuccessesThenFailure(N))
            => result = IF N > 0 THEN start_chunk + N - 1 ELSE 0

C1_Witness ==
    /\ Returned
    /\ start_chunk = 2
    /\ SuccessesThenFailure(2)
    /\ result = 3

\* The remote series is start_chunk..k served with 200 and k+1 answered with
\* a non-200 status.
SeriesEndsAfter(k) ==
    /\ k + 1 \in Indices
    /\ \A n \in start_chunk..k : remote[n] = HTTP_OK
    /\ remote[k + 1] = HTTP_NOT_FOUND

\* C2: a second run of download_chunks with the same arguments over the same
\* directory and the same remote series returns the index the first returned.
C2_SecondRunReturnsSameIndex ==
    \A k \in 0..MaxChunk :
        (runs = 2 /\ Returned /\ prev_result # NoResult /\ SeriesEndsAfter(k))
            => result = prev_result

\* C3: download_chunks returns 0 only when no index was fetched successfully
\* or found present (the loop never advanced); otherwise it returns the index
\* at which the loop stopped, minus 1.
C3_ExistingCountsAsRetrieved ==
    Returned => result = IF chunk_number = start_chunk THEN 0 ELSE chunk_number - 1

\* The directory held, when the run started, the chunks start_chunk..k and
\* not the chunk k+1.
HeldUpTo(k) ==
    /\ k + 1 \in Indices
    /\ \A n \in start_chunk..k : disk0[Name(n)].exists
    /\ ~disk0[Name(k + 1)].exists

\* C4: a fetch for index i is issued only if no file for i exists when the
\* loop reaches i, each index is fetched at most once per run, and a run over
\* a directory holding start_chunk..k, with k+1 not served, fetches k+1 only.
C4_FetchedAtMostOnce ==
    \A a, b \in 1..Len(fetches) : a # b => fetches[a].index # fetches[b].index

C4_ResumeFetchesNextOnly ==
    \A k \in start_chunk..MaxChunk :
        (HeldUpTo(k) /\ remote[k + 1] # HTTP_OK)
            => /\ \A j \in 1..Len(fetches) : fetches[j].index = k + 1
               /\ (pc \in {"ret", "blocked"} \/ Returned) => FetchIndices = <<k + 1>>

C4_FetchOnlyWhenAbsent ==
    fetches' # fetches /\ fetches' # <<>>
        => /\ ~disk[Name(chunk_number)].exists
           /\ \E status \in {remote[chunk_number], NoAnswer} :
                fetches' = Append(fetches, [index |-> chunk_number, status |-> status])

C4_NoRedundantFetch ==
    /\ [](C4_FetchedAtMostOnce /\ C4_ResumeFetchesNextOnly)
    /\ [][C4_FetchOnlyWhenAbsent]_vars

C4_Witness ==
    /\ runs = 2
    /\ Returned
    /\ HeldUpTo(2)
    /\ start_chunk = 1
    /\ FetchIndices = <<3>>

\* C5: in a run of main in which download_chunks returns 0, neither
\* create_concat_file nor merge_chunks_into_mp4 is called: no manifest is
\* written and ffmpeg is not started.
C5_ZeroSkipsManifestAndMerge ==
    (caller = "main" /\ result = 0)
        => /\ calls.concat = 0
           /\ calls.merge = 0
           /\ manifest = manifest0
           /\ exit_status = NoExit
           /\ pc \in {"guard", "done", "raised"}
           /\ "starting" \notin printed

C5_Witness ==
    /\ caller = "main"
    /\ result = 0
    /\ pc = "done"
    /\ "closing" \in printed

\* C6: the existence check never takes a file whose content is not the
\* complete payload for "already exists".
C6_NoPartialFileSkipped ==
    (pc = "loop" /\ chunk_number \in Indices /\ Exists(disk, Name(chunk_number)))
        => disk[Name(chunk_number)].data = Content(chunk_number)

\* create_concat_file has returned in this run.
ConcatReturned ==
    /\ calls.concat > 0
    /\ pc \in {"merge", "merging", "finish", "done"} \/ (pc = "raised" /\ calls.merge > 0)

\* C7: for every outcome k > 0, create_concat_file, when it returns, leaves a
\* manifest of exactly k lines naming video1.ts .. videok.ts in ascending
\* order, without duplicates, gaps or entries beyond k, whatever file_list.txt
\* held before.
C7_ManifestCorrect ==
    ConcatReturned
        => /\ result > 0
           /\ manifest.exists
           /\ Len(manifest.data) = result
           /\ \A j \in 1..Len(manifest.data) :
                manifest.data[j] = "file 'video" \o ToString(j) \o ".ts'\n"
           /\ \A a, b \in 1..Len(manifest.data) :
                a # b => manifest.data[a] # manifest.data[b]

C7_Witness ==
    /\ ConcatReturned
    /\ manifest0 = StaleManifest
    /\ result = 3
    /\ manifest.data = <<"file 'video1.ts'\n", "file 'video2.ts'\n", "file 'video3.ts'\n">>

\* The last fetch of this run failed in transport.
LastFetchFailedInTransport ==
    fetches # <<>> /\ fetches[Len(fetches)].status = NoStatus

\* The last fetch of this run was answered with a status other than 200.
LastFetchNon200 ==
    fetches # <<>> /\ fetches[Len(fetches)].status \notin {HTTP_OK, NoStatus, NoAnswer}

\* C8: a fetch that fails in transport is not distinguished from a non-200
\* status: the loop stops as at the end of the series and download_chunks
\* returns its normal outcome (0 if nothing was retrieved, else the last index
\* before the failing one).
C8_TransportFailureReturnsNormally ==
    LastFetchFailedInTransport
        => \/ pc = "ret"
           \/ /\ Returned
              /\ result \in {0, fetches[Len(fetches)].index - 1}

\* The directory held, when the run started, exactly the chunks
\* start_chunk..m among start_chunk..n+1.
HeldExactly(m, n) ==
    \A x \in start_chunk..(n + 1) : disk0[Name(x)].exists <=> x <= m

\* C9: if the directory initially holds start_chunk..m, the remote serves
\* m+1..n with 200 (n > m) and answers non-200 for n+1, download_chunks
\* returns n and fetches exactly m+1, ..., n+1, in that order.
C9_MixedResume ==
    \A m \in 0..MaxChunk, n \in 1..MaxChunk :
        ( /\ Returned
          /\ m >= start_chunk - 1 /\ n > m /\ n + 1 \in Indices
          /\ HeldExactly(m, n)
          /\ \A x \in (m + 1)..n : remote[x] = HTTP_OK
          /\ remote[n + 1] # HTTP_OK )
            => /\ result = n
               /\ FetchIndices = Upto(m + 1, n + 1)

C9_Witness ==
    /\ Returned
    /\ start_chunk = 1
    /\ HeldExactly(2, 3)
    /\ remote[3] = HTTP_OK /\ remote[4] = HTTP_NOT_FOUND
    /\ result = 3
    /\ FetchIndices = <<3, 4>>

\* C10: whenever ffmpeg exits with a non-zero status the run ends in an error
\* that leaves main, and neither the output file is announced as generated
\* nor the process reported as completed.
C10_MergeFailureSurfaced ==
    (exit_status # NoExit /\ exit_status # 0)
        => /\ pc = "raised"
           /\ "generated" \notin printed
           /\ "completed" \notin printed

C10_Witness ==
    /\ exit_status = 1
    /\ pc = "raised"
    /\ calls.merge = 1
    /\ result = 3

\* C11: once a fetch is answered non-200 for index j, the run issues no
\* further fetch (no retry of j, no probe beyond j) and writes no further
\* segment file: a gap in the remote series is taken for its end.
C11_FailureIsLastFetch ==
    \A j \in 1..Len(fetches) : fetches[j].status # HTTP_OK => j = Len(fetches)

C11_NothingAfterFailure ==
    (LastFetchNon200 /\ runs' = runs) => (fetches' = fetches /\ disk' = disk)

C11_StopsAtFirstFailure ==
    /\ []C11_FailureIsLastFetch
    /\ [][C11_NothingAfterFailure]_vars

\* A run over a series with a gap: chunk 2 is answered 404 while chunk 3 is
\* served and not on disk; the run has ended without asking for chunk 3.
C11_Witness ==
    /\ pc \in {"done", "returned"}
    /\ FetchIndices = <<1, 2>>
    /\ remote[2] = HTTP_NOT_FOUND /\ remote[3] = HTTP_OK
    /\ ~Exists(disk, Name(3))
    /\ result = 1

\* C12: no index is ever skipped. In every state of the loop each index i
\* with start_chunk <= i < chunk_number has its file in the directory, the
\* loop advances chunk_number by exactly 1, and when download_chunks returns
\* k > 0 all of start_chunk..k are on disk.
C12_PassedIndicesPresent ==
    \A n \in start_chunk..(chunk_number - 1) : Exists(disk, Name(n))

C12_ReturnedIndicesPresent ==
    (Returned /\ result > 0)
        => /\ result >= start_chunk
           /\ \A n \in start_chunk..result : Exists(disk, Name(n))

C12_AdvancesByOne ==
    (chunk_number' # chunk_number /\ runs' = runs)
        => chunk_number' = chunk_number + 1

C12_NoIndexSkipped ==
    /\ [](C12_PassedIndicesPresent /\ C12_ReturnedIndicesPresent)
    /\ [][C12_AdvancesByOne]_vars

\* A run from chunk 2 that found chunk 2 on disk, downloaded chunk 3 and
\* returned 3.
C12_Witness ==
    /\ Returned
    /\ start_chunk = 2
    /\ disk0[Name(2)].exists
    /\ FetchIndices = <<3, 4>>
    /\ result = 3
    /\ chunk_number = 4

\* The lines of file_list.txt.
ManifestLines == {manifest.data[j] : j \in 1..Len(manifest.data)}

\* C13: for any start index s >= 1, if download_chunks started at s returns
\* k > 0 and create_concat_file is then called with k, every line of the
\* manifest names a segment file that is in the directory when ffmpeg is
\* started.
C13_ManifestFilesExist ==
    (pc = "merge" /\ result > 0)
        => /\ Len(manifest.data) = result
           /\ \A name \in Names :
                ConcatLine(name) \in ManifestLines => Exists(disk, name)

\* C14: segment files are append-only. download_chunks never overwrites,
\* truncates or deletes a segment file that already exists: files present
\* before the run are unchanged, a file written during the run is written
\* once (created empty by open, then filled by the one write), and the set of
\* segment files only grows.
C14_EarlierFilesUnchanged ==
    \A name \in Names : disk0[name].exists => disk[name] = disk0[name]

C14_OnlyTheNewFileIsWritten ==
    \A name \in Names :
        /\ disk[name].exists => disk'[name].exists
        /\ disk'[name] # disk[name]
             => /\ name = Name(chunk_number)
                /\ ~disk0[name].exists
                /\ \/ ~disk[name].exists /\ pc = "save" /\ disk'[name].data = <<>>
                   \/ disk[name].data = <<>> /\ pc = "write"

C14_SegmentFilesAppendOnly ==
    /\ []C14_EarlierFilesUnchanged
    /\ [][C14_OnlyTheNewFileIsWritten]_vars

\* A second run over a directory in which the first run left a truncated
\* chunk 2: the run has skipped chunks 1 and 2, downloaded chunk 3 and
\* returned, and chunk 2 is still as it was.
C14_Witness ==
    /\ runs = 2
    /\ Returned
    /\ start_chunk = 1
    /\ disk0[Name(1)] = File(Content(1))
    /\ disk0[Name(2)] = File(<<2>>)
    /\ disk[Name(2)] = File(<<2>>)
    /\ ~disk0[Name(3)].exists
    /\ disk[Name(3)] = File(Content(3))

\* download_chunks has entered its loop and not yet looked at an index.
LoopEntered == pc = "loop" /\ chunk_number = start_chunk /\ fetches = <<>>

\* The loop of download_chunks has been left in this run.
LoopLeft == pc \notin {"enter", "loop", "save", "write", "blocked"}

\* Every index of the series answers with a status.
EveryIndexAnswers == \A n \in Indices : remote[n] # NoStatus

\* C15 as stated: for any initial content of the directory and any remote
\* series in which some index at or after start_chunk answers non-200, the
\* loop eventually stops and download_chunks returns.
C15_LoopStopsAndReturns ==
    (/\ LoopEntered
     /\ EveryIndexAnswers
     /\ \E n \in Indices : n >= start_chunk /\ remote[n] # HTTP_OK)
        ~> Returned

\* C15 as amended: if some index at or after start_chunk whose file is not in
\* the directory answers non-200 or fails in transport, the loop does not go
\* on for ever: eventually download_chunks returns, or an exception leaves
\* it, or it is blocked in a request that is never answered. The loop is left
\* by its break only after a non-200 answer, and only then does
\* download_chunks return; every other way out of the loop is an exception
\* that nothing catches, after which nothing is returned.
C15_ReturnsOnlyAfterNon200 ==
    /\ (pc = "ret" \/ Returned) => LastFetchNon200
    /\ (LoopLeft /\ ~Returned /\ pc # "ret") => pc = "raised"

C15_LoopTerminates ==
    /\ (LoopEntered
        /\ \E n \in Indices :
             n >= start_chunk /\ ~Exists(disk, Name(n)) /\ remote[n] # HTTP_OK)
          ~> (Returned \/ pc = "raised" \/ pc = "blocked")
    /\ []C15_ReturnsOnlyAfterNon200

\* A run that skipped chunk 1, downloaded chunks 2 and 3 and left the loop at
\* the 404 of chunk 4.
C15_Witness ==
    /\ Returned
    /\ start_chunk = 1
    /\ disk0[Name(1)].exists
    /\ FetchIndices = <<2, 3, 4>>
    /\ remote[4] = HTTP_NOT_FOUND
    /\ result = 3

\* The manifest create_concat_file writes for last_chunk = k.
ManifestFor(k) == File([j \in 1..k |-> "file 'video" \o ToString(j) \o ".ts'\n"])

\* C16: stage ordering in main. The manifest is written only after
\* download_chunks has returned a positive index, ffmpeg is started only
\* after the manifest has been completely written, each stage runs at most
\* once per run, and the manifest is built with exactly the index that
\* download_chunks returned.
C16_StagesInOrder ==
    /\ calls.concat <= 1 /\ calls.merge <= 1
    /\ calls.concat > 0 => (Returned /\ result > 0)
    /\ calls.concat = 0 => manifest = manifest0
    /\ calls.merge > 0 => calls.concat = 1
    /\ (pc = "merge" \/ calls.merge > 0) => manifest = ManifestFor(result)
    /\ pc = "concat_write" => manifest = ManifestFor(i - 1) /\ i <= result + 1

C16_StageSteps ==
    /\ (manifest' # manifest) => (Returned /\ result > 0 /\ calls'.concat = 1)
    /\ (result # NoResult /\ runs' = runs) => result' = result
    /\ (calls'.merge # calls.merge /\ runs' = runs)
          => (manifest = ManifestFor(result) /\ calls.concat = 1 /\ calls.merge = 0)

C16_StageOrdering ==
    /\ []C16_StagesInOrder
    /\ [][C16_StageSteps]_vars

\* A run of main that returned 3, wrote the three lines over a stale
\* manifest, ran ffmpeg and completed.
C16_Witness ==
    /\ caller = "main"
    /\ pc = "done"
    /\ result = 3
    /\ manifest0 = StaleManifest
    /\ manifest = ManifestFor(3)
    /\ calls = [concat |-> 1, merge |-> 1]
    /\ "completed" \in printed

====
